---- MODULE Spec2Model ----
(***************************************************************************)
(* scripts/update-readme.js: updateReadme(projectDir, readmePath).         *)
(*                                                                         *)
(* A text is a sequence of characters (one-character strings; the glyph    *)
(* U+2749 is the single UTF-16 unit "U+2749").  Offsets handed to the      *)
(* JavaScript string methods are 0-based as in the source; positions used  *)
(* inside the matchers are 1-based sequence indices.                      *)
(***************************************************************************)
EXTENDS Integers, Sequences, FiniteSets, TLC

(***************************************************************************)
(* Bounds of the model.                                                    *)
(***************************************************************************)
MaxRuns == 3
MaxDirs == 2

(***************************************************************************)
(* String literals of the source.                                          *)
(***************************************************************************)
placeholder ==
    << "<", "!", "-", "-", " ", "F", "O", "L", "D", "E", "R", " ", "L",
       "I", "N", "K", "S", " ", "-", "-", ">" >>

LinkOpen == << "<", "a" >>
LinkHref == << "h", "r", "e", "f", "=", "\"", ".", "/" >>
LinkHrefEnd == << "/", "\"" >>
LinkStyle ==
    << "s", "t", "y", "l", "e", "=", "\"", "f", "o", "n", "t", "-", "w",
       "e", "i", "g", "h", "t", ":" >>
LinkBold == << "b", "o", "l", "d", ";" >>
LinkMargin ==
    << "m", "a", "r", "g", "i", "n", "-", "b", "o", "t", "t", "o", "m",
       ":", "2", "0", "0", "p", "x", ";", "\"", ">", "U+2749" >>
LinkClose == << "<", "/", "a", ">", "<", "/", "b", "r", ">" >>
Hashes == << "#", "#", "#" >>
Rule == << "\n", "-", "-", "-", "\n" >>
NextHeading == << "\n", "#", "#", "#" >>
DotSlash == << ".", "/" >>
Slash == << "/" >>
Space == << " " >>
Newline == << "\n" >>
SectionIndent == [k \in 1..20 |-> " "]

(***************************************************************************)
(* JavaScript string primitives.                                           *)
(***************************************************************************)
SetMin(S) == CHOOSE x \in S : \A y \in S : x <= y
SetMax(S) == CHOOSE x \in S : \A y \in S : x >= y

\* \s of the regular expressions and the characters String.prototype.trim strips
IsWhiteSpace(c) == c \in {" ", "\n", "\t", "\r"}

\* lit occurs in t at 1-based position p
HasAt(t, p, lit) ==
    /\ p >= 1
    /\ p + Len(lit) - 1 <= Len(t)
    /\ \A n \in 1..Len(lit) : t[p + n - 1] = lit[n]

\* first 1-based position >= p at which lit occurs in t, 0 when there is none
FindFrom(t, p, lit) ==
    LET hits == {q \in p..(Len(t) - Len(lit) + 1) : HasAt(t, q, lit)}
    IN  IF hits = {} THEN 0 ELSE SetMin(hits)

\* String.prototype.indexOf: 0-based offset of the first occurrence, -1 when absent
indexOf(t, lit) == FindFrom(t, 1, lit) - 1

\* String.prototype.includes
includes(t, lit) == indexOf(t, lit) # -1

\* String.prototype.slice(0, end) for end >= 0
slice(t, end) == SubSeq(t, 1, IF end < Len(t) THEN end ELSE Len(t))

\* number of consecutive white-space characters of t from position p on
RECURSIVE WhiteRun(_, _)
WhiteRun(t, p) ==
    IF p > Len(t) \/ ~IsWhiteSpace(t[p]) THEN 0 ELSE 1 + WhiteRun(t, p + 1)

\* number of consecutive white-space characters of t from position p backwards
RECURSIVE WhiteRunBack(_, _)
WhiteRunBack(t, p) ==
    IF p < 1 \/ ~IsWhiteSpace(t[p]) THEN 0 ELSE 1 + WhiteRunBack(t, p - 1)

\* String.prototype.trim
trim(t) ==
    LET lead == WhiteRun(t, 1)
    IN  IF lead = Len(t) THEN << >>
        ELSE SubSeq(t, lead + 1, Len(t) - WhiteRunBack(t, Len(t)))

\* first position >= p of t holding character c, Len(t) + 1 when there is none
CharFrom(t, p, c) ==
    LET hits == {q \in p..Len(t) : t[q] = c}
    IN  IF hits = {} THEN Len(t) + 1 ELSE SetMin(hits)

\* Array.prototype.join
RECURSIVE join(_, _)
join(parts, sep) ==
    IF Len(parts) = 0 THEN << >>
    ELSE IF Len(parts) = 1 THEN parts[1]
    ELSE parts[1] \o sep \o join(Tail(parts), sep)

(***************************************************************************)
(* Rendering: the template literals of lines 24, 32, 42 and 55-59.         *)
(***************************************************************************)
\* `<a href="./${folderName}/" style="font-weight: bold; margin-bottom:200px;">U+2749 ${folderTitle}</a></br>`
LinkText(folderName, folderTitle) ==
    LinkOpen \o Space \o LinkHref \o folderName \o LinkHrefEnd \o Space
        \o LinkStyle \o Space \o LinkBold \o Space \o LinkMargin \o Space
        \o folderTitle \o LinkClose

\* `### ${sectionTitle}\n---\n${sectionContent}`
SectionText(sectionTitle, sectionContent) ==
    Hashes \o Space \o sectionTitle \o Rule \o sectionContent

\* the template literal pushed for a subdirectory: it opens with a line break
\* and closes with a line break and the indentation of the closing backquote
NewSectionText(dirName, content) ==
    Newline \o Hashes \o Space \o dirName \o Rule \o content
        \o Newline \o SectionIndent

(***************************************************************************)
(* existingLinksRegex, matched at position p of t:                         *)
(*   <a\s+href="\.\/([^"]+)\/"\s+style="font-weight:\s+bold;\s+            *)
(*   margin-bottom:200px;">U+2749\s+([^<]+)<\/a><\/br>                     *)
(* Every \s+ but the last is followed by a literal that starts with a      *)
(* letter, so it takes the whole white-space run.  ([^"]+)\/" ends at the  *)
(* first double quote, which a slash must precede.  The last \s+ is        *)
(* greedy and gives one character back when ([^<]+) would be empty.        *)
(***************************************************************************)
LinkMatchAt(t, p) ==
    LET p1 == p + Len(LinkOpen)
        p2 == p1 + WhiteRun(t, p1)
        p3 == p2 + Len(LinkHref)
        dq == CharFrom(t, p3, "\"")
        p4 == dq + 1
        p5 == p4 + WhiteRun(t, p4)
        p6 == p5 + Len(LinkStyle)
        p7 == p6 + WhiteRun(t, p6)
        p8 == p7 + Len(LinkBold)
        p9 == p8 + WhiteRun(t, p8)
        p10 == p9 + Len(LinkMargin)
        lt == CharFrom(t, p10, "<")
        w == WhiteRun(t, p10)
        k == IF w < lt - p10 THEN w ELSE lt - p10 - 1
    IN  IF /\ HasAt(t, p, LinkOpen)
           /\ p2 > p1
           /\ HasAt(t, p2, LinkHref)
           /\ dq <= Len(t)
           /\ dq - 1 > p3
           /\ t[dq - 1] = "/"
           /\ p5 > p4
           /\ HasAt(t, p5, LinkStyle)
           /\ p7 > p6
           /\ HasAt(t, p7, LinkBold)
           /\ p9 > p8
           /\ HasAt(t, p9, LinkMargin)
           /\ k >= 1
           /\ HasAt(t, lt, LinkClose)
        THEN [ok |-> TRUE,
              start |-> p,
              folderName |-> SubSeq(t, p3, dq - 2),
              folderTitle |-> SubSeq(t, p10 + k, lt - 1),
              end |-> lt + Len(LinkClose)]
        ELSE [ok |-> FALSE]

\* existingLinksRegex.exec with lastIndex = from - 1: the leftmost match
RECURSIVE LinkExec(_, _)
LinkExec(t, from) ==
    LET p == FindFrom(t, from, LinkOpen)
    IN  IF p = 0 THEN [ok |-> FALSE]
        ELSE IF LinkMatchAt(t, p).ok THEN LinkMatchAt(t, p)
        ELSE LinkExec(t, p + 1)

\* the matches of the while loop of lines 21-26, in document order
RECURSIVE LinkMatches(_, _)
LinkMatches(t, from) ==
    LET m == LinkExec(t, from)
    IN  IF m.ok THEN << m >> \o LinkMatches(t, m.end) ELSE << >>

\* the links searched for behind the marker only
ExistingLinks_Managed(t) ==
    LET ms == LinkMatches(t, indexOf(t, placeholder) + Len(placeholder) + 1)
    IN  [n \in 1..Len(ms) |-> LinkText(ms[n].folderName, ms[n].folderTitle)]

\* lines 18-26: the links pushed to folderLinks
ExistingLinks(t) ==
    LET ms == LinkMatches(t, 1)
    IN  [n \in 1..Len(ms) |-> LinkText(ms[n].folderName, ms[n].folderTitle)]

(***************************************************************************)
(* existingSectionsRegex, matched at position p of t:                      *)
(*   ###\s+([^#]+)\n---\n([\s\S]*?)(?=\n###|$)                             *)
(* \s+ and ([^#]+) are greedy and backtrack: the longest white-space run   *)
(* k is tried first and for it the rightmost rule line before the next #.  *)
(* The lazy body always succeeds (at the latest at the end of the text),   *)
(* so the first (k, e) found is the match.  Without the m flag $ is the    *)
(* end of the text.                                                        *)
(***************************************************************************)
SectionMatchAt(t, p) ==
    LET q == p + Len(Hashes)
        W == WhiteRun(t, q)
        N == CharFrom(t, q, "#")
        E(k) == {e \in (q + k + 1)..(N - Len(Rule)) : HasAt(t, e, Rule)}
        K == {k \in 1..W : E(k) # {}}
        k == SetMax(K)
        e == SetMax(E(k))
        b == e + Len(Rule)
        j == FindFrom(t, b, NextHeading)
        end == IF j = 0 THEN Len(t) + 1 ELSE j
    IN  IF HasAt(t, p, Hashes) /\ K # {}
        THEN [ok |-> TRUE,
              start |-> p,
              title |-> SubSeq(t, q + k, e - 1),
              body |-> SubSeq(t, b, end - 1),
              end |-> end]
        ELSE [ok |-> FALSE]

\* existingSectionsRegex.exec with lastIndex = from - 1: the leftmost match
RECURSIVE SectionExec(_, _)
SectionExec(t, from) ==
    LET p == FindFrom(t, from, Hashes)
    IN  IF p = 0 THEN [ok |-> FALSE]
        ELSE IF SectionMatchAt(t, p).ok THEN SectionMatchAt(t, p)
        ELSE SectionExec(t, p + 1)

\* the matches of the while loop of lines 29-33, in document order
RECURSIVE SectionMatches(_, _)
SectionMatches(t, from) ==
    LET m == SectionExec(t, from)
    IN  IF m.ok THEN << m >> \o SectionMatches(t, m.end) ELSE << >>

\* lines 28-33: the sections pushed to readmeSections
ExistingSections(t) ==
    LET ms == SectionMatches(t, 1)
    IN  [n \in 1..Len(ms) |-> SectionText(trim(ms[n].title), trim(ms[n].body))]

(***************************************************************************)
(* The body of the forEach callback (lines 36-63) and the recomposition    *)
(* (lines 66-73) as functions of the locals.                               *)
(***************************************************************************)
\* a link pushed at the front of the list
LinksAfterVisit_Unshift(links, dirName) ==
    IF \E n \in 1..Len(links) :
           includes(links[n], DotSlash \o dirName \o Slash)
    THEN links
    ELSE << LinkText(dirName, dirName) >> \o links

\* a link pushed for every subdirectory, referenced or not
LinksAfterVisit_Always(links, dirName) ==
    Append(links, LinkText(dirName, dirName))

\* lines 41-44; path.relative(projectDir, path.join(projectDir, dirName)) is
\* dirName for a name readdirSync returns (no separator, not "." or "..")
LinksAfterVisit(links, dirName) ==
    IF \E n \in 1..Len(links) :
           includes(links[n], DotSlash \o dirName \o Slash)
    THEN links
    ELSE Append(links, LinkText(dirName, dirName))

\* a section pushed at the front of the list
SectionsAfterVisit_Unshift(sections, dirName, raw) ==
    IF \E n \in 1..Len(sections) :
           includes(sections[n], SectionText(dirName, trim(raw)))
    THEN sections
    ELSE << NewSectionText(dirName, trim(raw)) >> \o sections

\* a section taken for present only when a whole list element equals it
SectionsAfterVisit_Exact(sections, dirName, raw) ==
    IF \E n \in 1..Len(sections) :
           sections[n] = SectionText(dirName, trim(raw))
    THEN sections
    ELSE Append(sections, NewSectionText(dirName, trim(raw)))

\* the section of the subdirectory replaced by the one for its new content
SectionsAfterVisit_Replace(sections, dirName, raw) ==
    LET Old(section) ==
            HasAt(trim(section), 1, Hashes \o Space \o dirName \o Rule)
    IN  IF \E n \in 1..Len(sections) :
               includes(sections[n], SectionText(dirName, trim(raw)))
        THEN sections
        ELSE Append(SelectSeq(sections, LAMBDA section : ~Old(section)),
                    NewSectionText(dirName, trim(raw)))

\* lines 48-61, for a subdirectory whose README.md holds raw
SectionsAfterVisit(sections, dirName, raw) ==
    IF \E n \in 1..Len(sections) :
           includes(sections[n], SectionText(dirName, trim(raw)))
    THEN sections
    ELSE Append(sections, NewSectionText(dirName, trim(raw)))

\* the line break between the links and the sections left out
UpdatedContent_OneNewline(content, position, links, sections) ==
    slice(content, position) \o Newline \o join(links, Newline)
        \o join(sections, Newline)

\* the text that followed the marker kept behind the generated lists
UpdatedContent_KeepTail(content, position, links, sections) ==
    slice(content, position) \o Newline \o join(links, Newline)
        \o Newline \o join(sections, Newline)
        \o SubSeq(content, position + 1, Len(content))

\* only the links pushed by the callback written, the extracted ones dropped
UpdatedContent_NewLinksOnly(content, position, links, sections) ==
    slice(content, position) \o Newline
        \o join(SubSeq(links, Len(ExistingLinks(content)) + 1, Len(links)),
                Newline)
        \o Newline \o join(sections, Newline)

\* lines 66-73
UpdatedContent(content, position, links, sections) ==
    slice(content, position) \o Newline \o join(links, Newline)
        \o Newline \o join(sections, Newline)

\* the insert position with the absent marker reported as -1
InsertPosition_Checked(content) ==
    IF includes(content, placeholder)
    THEN indexOf(content, placeholder) + Len(placeholder)
    ELSE -1

\* the insert position in front of the marker instead of behind it
InsertPosition_NoLength(content) == indexOf(content, placeholder)

\* lines 11-12
InsertPosition(content) == indexOf(content, placeholder) + Len(placeholder)

(***************************************************************************)
(* Inputs: the README texts and the project directories of the model.      *)
(***************************************************************************)
README_md == << "R", "E", "A", "D", "M", "E", ".", "m", "d" >>
Hello == << "H", "e", "l", "l", "o" >>
\* a note with a heading of its own, as javaScript/JSBridge.md has them
Nested == << " ", "n", "\n", "#", "#", "#", " ", "U", "\n", "s", "\n" >>
Title == << "#", " ", "t", "\n" >>
TocHeading == << "#", "#", "#", " ", "T", "\n", "-", "-", "-", "\n" >>
NoMarkerText ==
    << "#", " ", "d", "a", "i", "l", "y", "-", "l", "e", "a", "r", "n", "i",
       "n", "g", "\n", "n", "o", "t", "e", "s", "\n" >>
\* the link style of the README before the script was introduced
PlainLink(d) ==
    << "-", " ", "<", "a", " ", "h", "r", "e", "f", "=", "\"", ".", "/" >>
        \o d \o << "/", "\"", " ", ">" >> \o d \o LinkClose
Junk == << "z", "z" >>

DirA == << "a" >>
DirB == << "b" >>
DirC == << "c" >>

Readmes ==
    { Title \o placeholder,
      TocHeading \o placeholder \o Newline,
      placeholder \o Newline \o LinkText(DirA, DirA) \o Newline
          \o LinkText(DirA, DirA),
      NoMarkerText,
      placeholder \o Newline \o Junk \o Newline \o LinkText(DirC, DirC),
      placeholder \o Newline \o PlainLink(DirA),
      placeholder \o Newline \o LinkText(DirA, DirA) \o Newline
          \o SectionText(DirA, Hello),
      LinkText(DirB, DirB) \o Newline \o placeholder \o Newline \o Newline,
      TocHeading \o placeholder \o Newline \o Junk,
      placeholder \o Newline \o SectionText(DirA, Hello \o Junk),
      placeholder \o Newline \o LinkText(DirC, DotSlash \o DirA \o Slash),
      TocHeading \o placeholder \o Newline \o PlainLink(DirA) }

Dir(name) == [name |-> name, isDirectory |-> TRUE, hasReadme |-> FALSE, readme |-> << >>]
DirWith(name, raw) == [name |-> name, isDirectory |-> TRUE, hasReadme |-> TRUE, readme |-> raw]
File(name) == [name |-> name, isDirectory |-> FALSE, hasReadme |-> FALSE, readme |-> << >>]

Entries ==
    { Dir(DirA), DirWith(DirA, Hello), DirWith(DirA, Nested),
      Dir(DirB), DirWith(DirB, Hello \o Newline),
      File(README_md) }

\* directory listings: at most MaxDirs entries with distinct names
Trees ==
    UNION { { s \in [1..n -> Entries] :
                \A i, j \in 1..n : i # j => s[i].name # s[j].name }
            : n \in 0..MaxDirs }

(***************************************************************************)
(* State.                                                                  *)
(***************************************************************************)
VARIABLES
    file,            \* the text of README.md on disk
    tree,            \* the entries of projectDir, in readdirSync order
    pc,              \* position of the running invocation
    runs,            \* invocations started so far
    readmeContent,   \* line 8
    insertPosition,  \* line 11
    folderLinks,     \* line 5
    readmeSections,  \* line 6
    dirents,         \* the array readdirSync returned (line 35)
    next,            \* index of the entry forEach visits next
    log,             \* file operations of the running invocation, in order
    written,         \* per finished run: the links and sections it wrote
    initial,         \* the text of README.md before the first run
    before,          \* the text of README.md when the running invocation began
    error,           \* the call whose exception left updateReadme, if any
    other,           \* a second invocation of the script on the same README
    lastWriter       \* the invocation whose writeFileSync came last

vars == << file, tree, pc, runs, readmeContent, insertPosition, folderLinks,
           readmeSections, dirents, next, log, written, initial, before,
           error, other, lastWriter >>

RootPath == << "README.md" >>

NoError == << >>
OtherIdle == [pc |-> "idle", readmeContent |-> << >>, dirents |-> << >>]

\* the state after construction for a README text and a directory listing
Start(text, listing) ==
    /\ file = text
    /\ tree = listing
    /\ pc = "idle"
    /\ runs = 0
    /\ readmeContent = << >>
    /\ insertPosition = 0
    /\ folderLinks = << >>
    /\ readmeSections = << >>
    /\ dirents = << >>
    /\ next = 1
    /\ log = << >>
    /\ written = << >>
    /\ initial = text
    /\ before = text
    /\ error = NoError
    /\ other = OtherIdle
    /\ lastWriter = "none"

Init == \E text \in Readmes : \E listing \in Trees : Start(text, listing)

\* lines 78-80: the script is started (again); lines 5-6 reset the lists
Invoke ==
    /\ pc \in {"idle", "done", "failed"}
    /\ runs < MaxRuns
    /\ runs' = runs + 1
    /\ pc' = "read"
    /\ readmeContent' = << >>
    /\ insertPosition' = 0
    /\ folderLinks' = << >>
    /\ readmeSections' = << >>
    /\ dirents' = << >>
    /\ next' = 1
    /\ log' = << >>
    /\ before' = file
    /\ error' = NoError
    /\ UNCHANGED << file, tree, written, initial, other, lastWriter >>

\* lines 8-16: read the README, compute the insert position, test it
ReadReadme ==
    /\ pc = "read"
    /\ readmeContent' = file
    /\ insertPosition' = InsertPosition(file)
    /\ pc' = IF InsertPosition(file) = -1 THEN "thrown" ELSE "links"
    /\ log' = Append(log, [op |-> "readFileSync", path |-> RootPath])
    /\ UNCHANGED << file, tree, runs, folderLinks, readmeSections, dirents,
                    next, written, initial, before, error, other,
                    lastWriter >>

\* lines 18-26
ExtractLinks ==
    /\ pc = "links"
    /\ folderLinks' = ExistingLinks(readmeContent)
    /\ pc' = "sections"
    /\ UNCHANGED << file, tree, runs, readmeContent, insertPosition,
                    readmeSections, dirents, next, log, written, initial,
                    before, error, other, lastWriter >>

\* lines 28-33
ExtractSections ==
    /\ pc = "sections"
    /\ readmeSections' = ExistingSections(readmeContent)
    /\ pc' = "readdir"
    /\ UNCHANGED << file, tree, runs, readmeContent, insertPosition,
                    folderLinks, dirents, next, log, written, initial,
                    before, error, other, lastWriter >>

\* line 35: readdirSync
ReadDir ==
    /\ pc = "readdir"
    /\ dirents' = tree
    /\ next' = 1
    /\ pc' = "visit"
    /\ log' = Append(log, [op |-> "readdirSync", path |-> << >>])
    /\ UNCHANGED << file, tree, runs, readmeContent, insertPosition,
                    folderLinks, readmeSections, written, initial, before,
                    error, other, lastWriter >>

\* README.md read without the existsSync test
VisitOps_NoExistsTest(dirent) ==
    IF ~dirent.isDirectory THEN << >>
    ELSE << [op |-> "readFileSync", path |-> dirent.name] >>

\* the file operations of one call of the callback (lines 47-48)
VisitOps(dirent) ==
    IF ~dirent.isDirectory THEN << >>
    ELSE << [op |-> "existsSync", path |-> dirent.name] >>
         \o (IF dirent.hasReadme
             THEN << [op |-> "readFileSync", path |-> dirent.name] >>
             ELSE << >>)

\* the callback without the test of line 36: every entry taken for a directory
VisitDirent_NoTypeTest ==
    /\ pc = "visit"
    /\ next <= Len(dirents)
    /\ LET dirent == dirents[next]
       IN  /\ folderLinks' = LinksAfterVisit(folderLinks, dirent.name)
           /\ readmeSections' =
                 IF dirent.hasReadme
                 THEN SectionsAfterVisit(readmeSections, dirent.name,
                                         dirent.readme)
                 ELSE readmeSections
           /\ log' = log \o << [op |-> "existsSync", path |-> dirent.name] >>
    /\ next' = next + 1
    /\ UNCHANGED << file, tree, pc, runs, readmeContent, insertPosition,
                    dirents, written, initial, before, error, other,
                    lastWriter >>

\* the callback reading a README.md without asking whether it exists: an
\* absent one is taken for an empty one
VisitDirent_SectionAlways ==
    /\ pc = "visit"
    /\ next <= Len(dirents)
    /\ LET dirent == dirents[next]
       IN  /\ folderLinks' =
                 IF dirent.isDirectory
                 THEN LinksAfterVisit(folderLinks, dirent.name)
                 ELSE folderLinks
           /\ readmeSections' =
                 IF dirent.isDirectory
                 THEN SectionsAfterVisit(readmeSections, dirent.name,
                                         dirent.readme)
                 ELSE readmeSections
           /\ log' = log \o VisitOps(dirent)
    /\ next' = next + 1
    /\ UNCHANGED << file, tree, pc, runs, readmeContent, insertPosition,
                    dirents, written, initial, before, error, other,
                    lastWriter >>

\* lines 36-63: one call of the forEach callback
VisitDirent ==
    /\ pc = "visit"
    /\ next <= Len(dirents)
    /\ LET dirent == dirents[next]
       IN  /\ folderLinks' =
                 IF dirent.isDirectory
                 THEN LinksAfterVisit(folderLinks, dirent.name)
                 ELSE folderLinks
           /\ readmeSections' =
                 IF dirent.isDirectory /\ dirent.hasReadme
                 THEN SectionsAfterVisit(readmeSections, dirent.name,
                                         dirent.readme)
                 ELSE readmeSections
           /\ log' = log \o VisitOps(dirent)
    /\ next' = next + 1
    /\ UNCHANGED << file, tree, pc, runs, readmeContent, insertPosition,
                    dirents, written, initial, before, error, other,
                    lastWriter >>

\* lines 66-75: recompose and overwrite the README
WriteReadme ==
    /\ pc = "visit"
    /\ next > Len(dirents)
    /\ file' = UpdatedContent(readmeContent, insertPosition, folderLinks,
                              readmeSections)
    /\ log' = Append(log, [op |-> "writeFileSync", path |-> RootPath])
    /\ written' = Append(written, [links |-> folderLinks,
                                   sections |-> readmeSections])
    /\ pc' = "done"
    /\ lastWriter' = "first"
    /\ UNCHANGED << tree, runs, readmeContent, insertPosition, folderLinks,
                    readmeSections, dirents, next, initial, before, error,
                    other >>

Next ==
    \/ Invoke
    \/ ReadReadme
    \/ ExtractLinks
    \/ ExtractSections
    \/ ReadDir
    \/ VisitDirent
    \/ WriteReadme

Spec == Init /\ [][Next]_vars

(***************************************************************************)
(* Failing file-system calls.  readFileSync (lines 8, 48) and readdirSync  *)
(* (line 35) throw when the file or directory cannot be read; updateReadme *)
(* has no try/catch and the script calls it once (line 80), so the         *)
(* exception ends the invocation.                                          *)
(***************************************************************************)
\* an exception caught inside the callback, the loop going on
Propagate_Swallowed == "visit"

\* where an exception thrown inside updateReadme leaves the invocation
Propagate == "failed"

\* line 8 throws
ReadReadmeFails ==
    /\ pc = "read"
    /\ pc' = Propagate
    /\ error' = << "readFileSync", RootPath >>
    /\ UNCHANGED << file, tree, runs, readmeContent, insertPosition,
                    folderLinks, readmeSections, dirents, next, log, written,
                    initial, before, other, lastWriter >>

\* line 35 throws
ReadDirFails ==
    /\ pc = "readdir"
    /\ pc' = Propagate
    /\ error' = << "readdirSync", << >> >>
    /\ UNCHANGED << file, tree, runs, readmeContent, insertPosition,
                    folderLinks, readmeSections, dirents, next, log, written,
                    initial, before, other, lastWriter >>

\* line 48 throws: the link of lines 41-44 is pushed, existsSync returned true
VisitReadFails ==
    /\ pc = "visit"
    /\ next <= Len(dirents)
    /\ dirents[next].isDirectory
    /\ dirents[next].hasReadme
    /\ folderLinks' = LinksAfterVisit(folderLinks, dirents[next].name)
    /\ log' = Append(log, [op |-> "existsSync", path |-> dirents[next].name])
    /\ next' = next + 1
    /\ pc' = Propagate
    /\ error' = << "readFileSync", dirents[next].name >>
    /\ UNCHANGED << file, tree, runs, readmeContent, insertPosition,
                    readmeSections, dirents, written, initial, before, other,
                    lastWriter >>

NextIO ==
    \/ Next
    \/ ReadReadmeFails
    \/ ReadDirFails
    \/ VisitReadFails

SpecIO == Init /\ [][NextIO]_vars

(***************************************************************************)
(* A second invocation of the script on the same README and project        *)
(* directory.  The script takes no lock and compares nothing before line   *)
(* 75, so its read (line 8), its listing (line 35) and its write (line 75) *)
(* interleave freely with the steps of the first invocation and with       *)
(* directories being created.  Between the listing and the write it works  *)
(* on its locals only, so the whole loop is taken with the write.          *)
(***************************************************************************)
\* lines 35-64 as a whole: the lists after the callback ran for each entry
RECURSIVE VisitAll(_, _, _)
VisitAll(links, sections, listing) ==
    IF listing = << >> THEN [links |-> links, sections |-> sections]
    ELSE LET dirent == Head(listing)
         IN  VisitAll(
                 IF dirent.isDirectory
                 THEN LinksAfterVisit(links, dirent.name)
                 ELSE links,
                 IF dirent.isDirectory /\ dirent.hasReadme
                 THEN SectionsAfterVisit(sections, dirent.name, dirent.readme)
                 ELSE sections,
                 Tail(listing))

\* lines 11 and 66-73: the text recomposed from the lists the loop left
Recompose(content, lists) ==
    UpdatedContent(content, InsertPosition(content), lists.links,
                   lists.sections)

\* lines 8-73: the text a run writes that read content and listed listing
RunOutput(content, listing) ==
    Recompose(content,
              VisitAll(ExistingLinks(content), ExistingSections(content),
                       listing))

\* the README read again just before the write
WriterInput_Reread(own, disk) == disk

\* the text line 69 slices: the one read at line 8, whatever is on disk now
WriterInput(own, disk) == own

\* line 8 of the second invocation
OtherRead ==
    /\ other.pc = "idle"
    /\ other' = [pc |-> "readdir", readmeContent |-> file, dirents |-> << >>]
    /\ UNCHANGED << file, tree, pc, runs, readmeContent, insertPosition,
                    folderLinks, readmeSections, dirents, next, log, written,
                    initial, before, error, lastWriter >>

\* line 35 of the second invocation
OtherReadDir ==
    /\ other.pc = "readdir"
    /\ other' = [other EXCEPT !.pc = "visit", !.dirents = tree]
    /\ UNCHANGED << file, tree, pc, runs, readmeContent, insertPosition,
                    folderLinks, readmeSections, dirents, next, log, written,
                    initial, before, error, lastWriter >>

\* lines 35-75 of the second invocation
OtherWrite ==
    /\ other.pc = "visit"
    /\ file' = RunOutput(WriterInput(other.readmeContent, file),
                         other.dirents)
    /\ other' = [other EXCEPT !.pc = "done"]
    /\ lastWriter' = "second"
    /\ UNCHANGED << tree, pc, runs, readmeContent, insertPosition,
                    folderLinks, readmeSections, dirents, next, log, written,
                    initial, before, error >>

\* the subdirectories created while the invocations run
NewDirs == { Dir(DirA), DirWith(DirB, Hello \o Newline) }

\* a subdirectory is created in the project directory
CreateDir ==
    /\ Len(tree) < MaxDirs
    /\ \E entry \in NewDirs :
           /\ \A k \in 1..Len(tree) : tree[k].name # entry.name
           /\ tree' = Append(tree, entry)
    /\ UNCHANGED << file, pc, runs, readmeContent, insertPosition,
                    folderLinks, readmeSections, dirents, next, log, written,
                    initial, before, error, other, lastWriter >>

\* a README with the marker and nothing behind it, an empty project directory
InitTwo == Start(Title \o placeholder, << >>)

\* the first invocation is started once: the two invocations are the two runs
InvokeOnce ==
    /\ runs = 0
    /\ Invoke

NextTwo ==
    \/ InvokeOnce
    \/ ReadReadme
    \/ ExtractLinks
    \/ ExtractSections
    \/ ReadDir
    \/ VisitDirent
    \/ WriteReadme
    \/ OtherRead
    \/ OtherReadDir
    \/ OtherWrite
    \/ CreateDir

SpecTwo == InitTwo /\ [][NextTwo]_vars

(***************************************************************************)
(* Directory names beyond letters.  A directory name may hold any          *)
(* character but "/" and NUL; line 42 puts dirent.name into the link       *)
(* unescaped.                                                              *)
(***************************************************************************)
QuoteName == << "a", "\"", "b" >>
SpaceName == << " ", "a" >>

Names == { DirA, DirB, QuoteName, SpaceName }

NameTrees ==
    UNION { { s \in [1..n -> {Dir(d) : d \in Names}] :
                \A i, j \in 1..n : i # j => s[i].name # s[j].name }
            : n \in 0..MaxDirs }

InitNames == \E listing \in NameTrees : Start(Title \o placeholder, listing)

SpecNames == InitNames /\ [][Next]_vars

(***************************************************************************)
(* A subdirectory README.md edited between two runs.  The script reads it  *)
(* anew in every run (line 48), so a run sees the content of its own time. *)
(***************************************************************************)
\* the content a README.md is edited to
Edited == << "B", "y", "e" >>

\* the README.md of a subdirectory is rewritten while no run is under way
EditReadme ==
    /\ pc \in {"idle", "done"}
    /\ \E k \in 1..Len(tree) :
           /\ tree[k].isDirectory
           /\ tree[k].hasReadme
           /\ tree[k].readme # Edited
           /\ tree' = [tree EXCEPT ![k] = DirWith(tree[k].name, Edited)]
    /\ UNCHANGED << file, pc, runs, readmeContent, insertPosition,
                    folderLinks, readmeSections, dirents, next, log, written,
                    initial, before, error, other, lastWriter >>

InitEdit == \E listing \in Trees : Start(Title \o placeholder, listing)

NextEdit ==
    \/ Next
    \/ EditReadme

SpecEdit == InitEdit /\ [][NextEdit]_vars

(***************************************************************************)
(* Repeated runs from a README that ends with the marker, over             *)
(* subdirectories whose names are letters and whose README.md files hold   *)
(* no ### heading and no link.                                             *)
(***************************************************************************)
\* a note with a rule line of its own behind a blank line
RuleContent == << "x", "\n", "\n", "-", "-", "-", "\n", "y" >>

PlainEntries ==
    { Dir(DirA), DirWith(DirA, Hello), DirWith(DirB, Hello \o Newline),
      DirWith(DirB, RuleContent), File(README_md) }

PlainTrees ==
    UNION { { s \in [1..n -> PlainEntries] :
                \A i, j \in 1..n : i # j => s[i].name # s[j].name }
            : n \in 0..MaxDirs }

InitPlain == \E listing \in PlainTrees : Start(Title \o placeholder, listing)

SpecPlain == InitPlain /\ [][Next]_vars

(***************************************************************************)
(* The vocabulary of the claims.                                           *)
(***************************************************************************)
HasMarker(t) == includes(t, placeholder)

\* t up to and including the first occurrence of the marker
UpToMarker(t) ==
    SubSeq(t, 1, FindFrom(t, 1, placeholder) + Len(placeholder) - 1)

\* t after the first occurrence of the marker
AfterMarker(t) ==
    SubSeq(t, FindFrom(t, 1, placeholder) + Len(placeholder), Len(t))

Wrote(ops) == \E n \in 1..Len(ops) : ops[n].op = "writeFileSync"

\* the directory tree did not change: the model never changes tree
Subdirs(ds) == SelectSeq(ds, LAMBDA d : d.isDirectory)
SubdirsWithReadme(ds) == SelectSeq(ds, LAMBDA d : d.isDirectory /\ d.hasReadme)

\* the sections of a list whose heading is d
SectionsFor(sections, d) ==
    {n \in 1..Len(sections) :
        HasAt(trim(sections[n]), 1, Hashes \o Space \o d \o Rule)}

\* the directory name a link fragment binds (group 1 of existingLinksRegex)
LinkName(link) == LinkMatchAt(link, 1).folderName

\* C1: when the README read holds no marker, the run fails: it never
\* completes, it performs no write and the file stays what was read.
C1_FailsBeforeWrite ==
    (pc \notin {"idle", "read"} /\ ~HasMarker(readmeContent))
        => (pc # "done" /\ ~Wrote(log) /\ file = readmeContent)

\* C2: a run on the file the previous run wrote (marker present, tree
\* unchanged) writes a file identical to the one it read.
C2_RoundTrip ==
    (pc = "done" /\ runs >= 2 /\ HasMarker(readmeContent))
        => file = readmeContent

\* C3: every run on the unchanged tree writes the link list the first run
\* wrote.
C3_LinksStable ==
    HasMarker(file)
        => \A n \in 1..Len(written) : written[n].links = written[1].links

\* C4: for every subdirectory with a README.md, each run after the first
\* writes as many sections for it as the run before.
C4_NoSecondSection ==
    HasMarker(file) => \A n \in 2..Len(written) :
        \A k \in 1..Len(tree) :
            (tree[k].isDirectory /\ tree[k].hasReadme)
                => Cardinality(SectionsFor(written[n].sections, tree[k].name))
                     = Cardinality(SectionsFor(written[n - 1].sections,
                                               tree[k].name))

\* some link of the list contains "./d/" (the test of line 41)
Referenced(links, d) ==
    \E n \in 1..Len(links) : includes(links[n], DotSlash \o d \o Slash)

\* the subdirectories among ds that no link of extracted references, in
\* listing order
UnlinkedAmong(extracted, ds) ==
    SelectSeq(ds, LAMBDA d : d.isDirectory /\ ~Referenced(extracted, d.name))

\* the subdirectories among ds that no link extracted from the README
\* read references, in listing order
Unlinked(ds) == UnlinkedAmong(ExistingLinks(readmeContent), ds)

LinksOf(ds) == [n \in 1..Len(ds) |-> LinkText(ds[n].name, ds[n].name)]

C6_OneLinkPerName ==
    pc = "done"
        => \A i, j \in 1..Len(folderLinks) :
               i # j => LinkName(folderLinks[i]) # LinkName(folderLinks[j])

\* C7 as stated: with the marker present and no subdirectory the written
\* file is the input up to and including the marker plus one newline.
C7_MarkerAndOneNewline ==
    (pc = "done" /\ HasMarker(readmeContent) /\ Subdirs(dirents) = << >>)
        => file = UpToMarker(readmeContent) \o Newline

\* C7 amended: with the marker present and no subdirectory the written file
\* is the input up to and including the marker, a newline, the links
\* recognised in the input, a newline and the sections recognised in the
\* input; the run adds none (two newlines after the marker when the input
\* holds neither).
C7_MarkerAndExtracted ==
    (pc = "done" /\ HasMarker(readmeContent) /\ Subdirs(dirents) = << >>)
        => file = UpToMarker(readmeContent) \o Newline
                    \o join(ExistingLinks(readmeContent), Newline) \o Newline
                    \o join(ExistingSections(readmeContent), Newline)

C7_Witness ==
    /\ pc = "done"
    /\ HasMarker(readmeContent)
    /\ Subdirs(dirents) = << >>
    /\ file = UpToMarker(readmeContent) \o Newline \o Newline

\* the junk text follows the marker of t outside every recognised link and
\* section
JunkUnrecognised(t) ==
    /\ includes(AfterMarker(t), Junk)
    /\ \A n \in 1..Len(ExistingLinks(t)) : ~includes(ExistingLinks(t)[n], Junk)
    /\ \A n \in 1..Len(ExistingSections(t)) :
           ~includes(ExistingSections(t)[n], Junk)

\* C8: the written file is the input up to and including the marker, a
\* newline, the links joined by newlines, a newline, the sections joined by
\* newlines; text after the marker outside every recognised link and section
\* is not in the written file.
C8_Recomposition ==
    (pc = "done" /\ HasMarker(readmeContent))
        => /\ file = UpToMarker(readmeContent) \o Newline
                       \o join(folderLinks, Newline) \o Newline
                       \o join(readmeSections, Newline)
           /\ JunkUnrecognised(readmeContent)
                  => ~includes(AfterMarker(file), Junk)

C8_Witness ==
    /\ pc = "done"
    /\ HasMarker(readmeContent)
    /\ JunkUnrecognised(readmeContent)
    /\ ~includes(file, Junk)
    /\ Len(folderLinks) >= 2

\* C9: every section a run appends for a subdirectory d with trimmed
\* content c is the fragment "### d", newline, "---", newline, c.
C9_SectionFragment ==
    (pc = "done" /\ HasMarker(readmeContent))
        => \A n \in (Len(ExistingSections(readmeContent)) + 1)
                        ..Len(readmeSections) :
               \E k \in 1..Len(dirents) :
                   readmeSections[n]
                       = SectionText(dirents[k].name, trim(dirents[k].readme))

FileOps(ops) ==
    SelectSeq(ops, LAMBDA o : o.op \in {"readFileSync", "writeFileSync"})

ReadsOf(ds) ==
    [n \in 1..Len(SubdirsWithReadme(ds)) |->
        [op |-> "readFileSync", path |-> SubdirsWithReadme(ds)[n].name]]

RootRead == << [op |-> "readFileSync", path |-> RootPath] >>
RootWrite == << [op |-> "writeFileSync", path |-> RootPath] >>

\* C10: a run reads the root README, then one README.md per visited
\* subdirectory that has one, in listing order, and a finished run ends with
\* a single write of the root README, whatever it writes.
C10_FileOperationOrder ==
    /\ pc \in {"links", "sections", "readdir", "visit"}
           => FileOps(log) = RootRead \o ReadsOf(SubSeq(dirents, 1, next - 1))
    /\ pc = "done"
           => FileOps(log) = RootRead \o ReadsOf(dirents) \o RootWrite

C10_Witness ==
    /\ pc = "done"
    /\ file = readmeContent
    /\ Len(ReadsOf(dirents)) >= 1
    /\ Len(ReadsOf(dirents)) < Len(dirents)
    /\ Wrote(log)

\* C16: the marker test is dead: whatever README is read, with or without
\* the marker, the insert position is never -1 and the run never throws the
\* "not found" error; without the marker the position is 20 and the run
\* goes on to the write.
C16_MarkerCheckDead ==
    /\ pc # "thrown"
    /\ insertPosition # -1
    /\ (pc \notin {"idle", "read"} /\ ~HasMarker(readmeContent))
           => insertPosition = Len(placeholder) - 1

\* a run on a README without the marker that reached the write
C16_Witness ==
    /\ pc = "done"
    /\ ~HasMarker(readmeContent)
    /\ insertPosition = Len(placeholder) - 1
    /\ Wrote(log)
    /\ file = slice(readmeContent, Len(placeholder) - 1) \o Newline \o Newline

\* C17: after any number of runs the README up to and including the first
\* occurrence of the marker is what it was before the first run.
C17_HeadUnchanged ==
    HasMarker(initial)
        => /\ HasMarker(file)
           /\ UpToMarker(file) = UpToMarker(initial)

\* two finished runs changed the text behind the marker and left the head
C17_Witness ==
    /\ pc = "done"
    /\ runs >= 2
    /\ HasMarker(initial)
    /\ AfterMarker(file) # AfterMarker(initial)
    /\ UpToMarker(file) = UpToMarker(initial)
    /\ Len(UpToMarker(initial)) > Len(placeholder)

\* the matches of a list start at growing positions of the text
InDocumentOrder(ms) ==
    \A i, j \in 1..Len(ms) : i < j => ms[i].end <= ms[j].start

\* list is the list old followed by further elements
StartsWith(list, old) ==
    /\ Len(list) >= Len(old)
    /\ SubSeq(list, 1, Len(old)) = old

\* C18: in the written README the links and the sections extracted from the
\* input stand in the order in which the input held them, in front of the
\* links and sections the run added, and the whole link list stands in front
\* of the whole section list.
C18_ExtractedFirstLinksFirst ==
    (pc = "done" /\ HasMarker(readmeContent))
        => /\ InDocumentOrder(LinkMatches(readmeContent, 1))
           /\ InDocumentOrder(SectionMatches(readmeContent, 1))
           /\ StartsWith(folderLinks, ExistingLinks(readmeContent))
           /\ StartsWith(readmeSections, ExistingSections(readmeContent))
           /\ AfterMarker(file)
                  = Newline \o join(folderLinks, Newline) \o Newline
                      \o join(readmeSections, Newline)

\* a run that added a link and a section behind extracted ones
C18_Witness ==
    /\ pc = "done"
    /\ HasMarker(readmeContent)
    /\ Len(ExistingLinks(readmeContent)) >= 1
    /\ Len(ExistingSections(readmeContent)) >= 1
    /\ Len(folderLinks) > Len(ExistingLinks(readmeContent))
    /\ Len(readmeSections) > Len(ExistingSections(readmeContent))
    /\ StartsWith(readmeSections, ExistingSections(readmeContent))

\* the callback is called for an entry that is a regular file
VisitsFile ==
    /\ pc = "visit"
    /\ next <= Len(dirents)
    /\ ~dirents[next].isDirectory
    /\ next' = next + 1

\* C20: the call of the callback for an entry that is a regular file adds no
\* link and no section and performs no file operation, so no nested README
\* is tested for or read.
C20_OnlyDirectoriesContribute ==
    [][VisitsFile => UNCHANGED << folderLinks, readmeSections, log, file >>]_vars

\* a finished run over a listing that holds README.md and a subdirectory:
\* the subdirectory got its link, README.md got none and was never opened
\* as a nested README
C20_Witness ==
    /\ pc = "done"
    /\ \E k \in 1..Len(dirents) : ~dirents[k].isDirectory
    /\ Len(folderLinks) = Len(ExistingLinks(readmeContent)) + 1
    /\ \E k \in 1..Len(dirents) :
           /\ dirents[k].isDirectory
           /\ LinkText(dirents[k].name, dirents[k].name)
                  = folderLinks[Len(folderLinks)]
    /\ ~Referenced(folderLinks, README_md)
    /\ \A n \in 1..Len(log) : log[n].path # README_md

\* the callback is called for a subdirectory that holds a README.md
VisitsReadmeDir ==
    /\ pc = "visit"
    /\ next <= Len(dirents)
    /\ dirents[next].isDirectory
    /\ dirents[next].hasReadme
    /\ next' = next + 1

\* "### d", newline, "---", newline, c for the entry visited next
Fragment(dirent) == SectionText(dirent.name, trim(dirent.readme))

\* some section of the list contains the fragment as a substring
Contained(sections, fragment) ==
    \E n \in 1..Len(sections) : includes(sections[n], fragment)

\* C14: the callback appends a section for subdirectory d with trimmed
\* content c exactly when no section of the accumulated list contains
\* "### d\n---\nc" as a substring; a section whose body only begins with c
\* suppresses it.
C14_SectionAppendedIffNotContained ==
    [][VisitsReadmeDir =>
          IF Contained(readmeSections, Fragment(dirents[next]))
          THEN readmeSections' = readmeSections
          ELSE /\ Len(readmeSections') = Len(readmeSections) + 1
               /\ StartsWith(readmeSections', readmeSections)
               /\ includes(readmeSections'[Len(readmeSections')],
                           Fragment(dirents[next]))]_vars

\* a finished first run that appended no section for a subdirectory with a
\* README.md because an extracted section with a longer body begins with
\* its content
C14_Witness ==
    /\ pc = "done"
    /\ runs = 1
    /\ readmeSections = ExistingSections(readmeContent)
    /\ \E k \in 1..Len(dirents) :
           /\ dirents[k].isDirectory
           /\ dirents[k].hasReadme
           /\ Contained(readmeSections, Fragment(dirents[k]))
           /\ \A n \in 1..Len(readmeSections) :
                  readmeSections[n] # Fragment(dirents[k])

\* the links the run added behind the extracted ones
AddedLinks ==
    SubSeq(folderLinks, Len(ExistingLinks(readmeContent)) + 1,
           Len(folderLinks))

\* some link extracted from t binds exactly the directory name d
NamedExactly(t, d) ==
    \E n \in 1..Len(LinkMatches(t, 1)) : LinkMatches(t, 1)[n].folderName = d

\* C13: a finished run appended a link for subdirectory d exactly when no
\* link extracted from the README has the directory name d; a link for
\* another directory does not suppress it.
C13_LinkAppendedIffNoExactName ==
    pc = "done"
        => \A k \in 1..Len(dirents) :
               dirents[k].isDirectory
                   => ((\E n \in 1..Len(AddedLinks) :
                           AddedLinks[n]
                               = LinkText(dirents[k].name, dirents[k].name))
                        <=> ~NamedExactly(readmeContent, dirents[k].name))

\* the README before the first run holds a link for d in the plain format of
\* src/README.md and no recognised link that contains "./d/"
ForeignOnly(d) ==
    /\ includes(initial, PlainLink(d))
    /\ ~Referenced(ExistingLinks(initial), d)

\* how many elements of the list are the rendered link for d
CountFor(links, d) ==
    Cardinality({n \in 1..Len(links) : links[n] = LinkText(d, d)})

C11_FailureBeforeWrite ==
    error # NoError
        => /\ pc = "failed"
           /\ ~Wrote(log)
           /\ file = before
           /\ Len(written) < runs

\* a second run that failed reading a subdirectory README.md after the
\* first run had rewritten the README
C11_Witness ==
    /\ pc = "failed"
    /\ runs = 2
    /\ Len(error) = 2
    /\ error[1] = "readFileSync"
    /\ error[2] # RootPath
    /\ file = before
    /\ file # initial
    /\ Len(written) = 1
    /\ ~Wrote(log)

\* C12: with two invocations interleaved on one README, the file after a
\* write is the output its writer computed from the README text it read at
\* its own start and the listing it read, whatever the other invocation
\* wrote in between: the last writer wins.
C12_LastWriterWins ==
    /\ lastWriter = "second"
           => file = RunOutput(other.readmeContent, other.dirents)
    /\ (lastWriter = "first" /\ pc = "done")
           => file = RunOutput(readmeContent, dirents)

\* the second invocation read the README before the first run wrote it and
\* wrote last: a link the first invocation had written is gone
C12_Witness ==
    /\ lastWriter = "second"
    /\ Len(written) >= 1
    /\ other.readmeContent = initial
    /\ file = RunOutput(initial, other.dirents)
    /\ \E n \in 1..Len(written[Len(written)].links) :
           ~includes(file, written[Len(written)].links[n])

\* C19: every link a run wrote, whatever the directory name in it, is found
\* by the existing-link pattern on the next run and pushed as the same text,
\* so that it is the existing link for its directory.
C19_LinkRoundTrip ==
    (pc \in {"sections", "readdir", "visit", "done"} /\ runs >= 2
         /\ Len(written) = runs - 1)
        => \A n \in 1..Len(written[runs - 1].links) :
               \E m \in 1..Len(ExistingLinks(readmeContent)) :
                   ExistingLinks(readmeContent)[m]
                       = written[runs - 1].links[n]

\* the sections the run added behind the extracted ones
AddedSections ==
    SubSeq(readmeSections, Len(ExistingSections(readmeContent)) + 1,
           Len(readmeSections))

\* the section begins with the heading line of d and the rule line, whatever
\* follows
HeadedBy(section, d) ==
    HasAt(trim(section), 1,
          Hashes \o Space \o d \o SubSeq(Rule, 1, Len(Rule) - 1))

Occurrences(t, lit) == Cardinality({p \in 1..Len(t) : HasAt(t, p, lit)})

\* C22: a run that read a README holding the marker exactly once wrote a
\* README holding the marker exactly once.
C22_MarkerStaysUnique ==
    (pc = "done" /\ Occurrences(readmeContent, placeholder) = 1)
        => Occurrences(file, placeholder) = 1

\* the directory names and titles of the links the pattern finds in t
LinkSet(t) ==
    LET ms == LinkMatches(t, 1)
    IN  {<< ms[n].folderName, ms[n].folderTitle >> : n \in 1..Len(ms)}

\* no subdirectory of the listing has the directory name of the link
Orphan(link, listing) ==
    \A k \in 1..Len(listing) :
        ~(listing[k].isDirectory /\ listing[k].name = LinkName(link))

\* C23: every recognised link of the README a run read is in the README it
\* wrote, whether or not a subdirectory of its name exists, and every
\* recognised link of the README before the first run is in the README
\* every later run wrote.
C23_LinksNeverRemoved ==
    pc = "done"
        => LET ms == LinkMatches(readmeContent, 1)
               kept == LinkSet(file)
           IN  /\ \A n \in 1..Len(ms) :
                      /\ << ms[n].folderName, ms[n].folderTitle >> \in kept
                      /\ includes(file, LinkText(ms[n].folderName,
                                                 ms[n].folderTitle))
               /\ LinkSet(initial) \subseteq kept

\* the link of a directory that does not exist, still written by the third
\* run
C23_Witness ==
    /\ pc = "done"
    /\ runs = 3
    /\ \E n \in 1..Len(ExistingLinks(initial)) :
           /\ Orphan(ExistingLinks(initial)[n], tree)
           /\ includes(AfterMarker(file), ExistingLinks(initial)[n])
    /\ Len(Subdirs(tree)) >= 1
    /\ HasMarker(initial)

\* the sections of the list that begin with the heading and rule of d
Headed(sections, d) == {n \in 1..Len(sections) : HeadedBy(sections[n], d)}

\* C24: when a run reads a README that records a section for subdirectory d
\* and d/README.md now holds content that no recorded section contains under
\* the heading of d, the run writes the recorded sections as they were and
\* behind them a further section for d with the new content: the README
\* holds two sections headed d.
C24_SectionsNeverReplaced ==
    pc = "done"
        => LET recorded == ExistingSections(readmeContent)
           IN  \A k \in 1..Len(dirents) :
                   (/\ dirents[k].isDirectory
                    /\ dirents[k].hasReadme
                    /\ Headed(recorded, dirents[k].name) # {}
                    /\ ~Contained(recorded, Fragment(dirents[k])))
                       => /\ StartsWith(readmeSections, recorded)
                          /\ \E n \in (Len(recorded) + 1)..Len(readmeSections) :
                                 includes(readmeSections[n],
                                          Fragment(dirents[k]))
                          /\ Cardinality(Headed(readmeSections,
                                                dirents[k].name)) >= 2
                          /\ Cardinality(Headed(ExistingSections(file),
                                                dirents[k].name)) >= 2

\* the first run recorded the section for the old content, the README.md was
\* edited, and the second run wrote the old section and the new one
C24_Witness ==
    /\ pc = "done"
    /\ runs = 2
    /\ \E k \in 1..Len(dirents) :
           /\ dirents[k].isDirectory
           /\ dirents[k].readme = Edited
           /\ written[1].sections
                  = << NewSectionText(dirents[k].name, Hello) >>
           /\ readmeSections
                  = << SectionText(dirents[k].name, Hello),
                       NewSectionText(dirents[k].name, Edited) >>

\* the matches of the list that begin in front of the first marker of t
BeforeMarker(ms, t) ==
    {n \in 1..Len(ms) : ms[n].start < FindFrom(t, 1, placeholder)}

\* the text is an element of the list
Among(list, text) == \E n \in 1..Len(list) : list[n] = text

\* C25: a link or section the patterns find in front of the marker is pushed
\* to the lists like any other and written behind the marker, and the text
\* in front of the marker, which holds it, is written unchanged.
C25_WholeReadmeScanned ==
    (pc = "done" /\ HasMarker(readmeContent))
        => LET lms == LinkMatches(readmeContent, 1)
               sms == SectionMatches(readmeContent, 1)
           IN  /\ \A n \in BeforeMarker(lms, readmeContent) :
                      LET link == LinkText(lms[n].folderName,
                                           lms[n].folderTitle)
                      IN  /\ Among(folderLinks, link)
                          /\ includes(AfterMarker(file), link)
               /\ \A n \in BeforeMarker(sms, readmeContent) :
                      LET section == SectionText(trim(sms[n].title),
                                                 trim(sms[n].body))
                      IN  /\ Among(readmeSections, section)
                          /\ includes(AfterMarker(file), section)
               /\ UpToMarker(file) = UpToMarker(readmeContent)

\* a link in front of the marker, written again behind it by the first run
C25_Witness ==
    /\ pc = "done"
    /\ runs = 1
    /\ HasMarker(readmeContent)
    /\ BeforeMarker(LinkMatches(readmeContent, 1), readmeContent) # {}
    /\ Occurrences(readmeContent, LinkText(DirB, DirB)) = 1
    /\ Occurrences(UpToMarker(file), LinkText(DirB, DirB)) = 1
    /\ Occurrences(AfterMarker(file), LinkText(DirB, DirB)) = 1

\* C26: from the third run on, a run on the unchanged tree writes the file
\* it read, which is the output of the run before: the output of run 2 is
\* the output of every later run.
C26_FixedPointAfterSecondRun ==
    (pc = "done" /\ runs >= 3) => file = readmeContent

====
